---- MODULE Spec2Model ----
(***************************************************************************)
(* A model of shadowsocks/eventloop.py: the three polling backends         *)
(* (EpollLoop, KqueueLoop, SelectLoop), the descriptor registry and the    *)
(* dispatch loop of EventLoop (add/remove/modify, add_handler,             *)
(* remove_handler, poll, run).                                             *)
(***************************************************************************)
EXTENDS Integers, Sequences, FiniteSets, TLC

\* ---------------------------------------------------------------- flags
POLL_NULL == 0
POLL_IN == 1
POLL_OUT == 4
POLL_ERR == 8

\* mode & bit, for a single-bit mask
HasBit(mode, bit) == (mode \div bit) % 2 = 1

\* a | bit, for a single-bit mask
OrBit(a, bit) == IF HasBit(a, bit) THEN a ELSE a + bit

\* ---------------------------------------------------------------- bounds
MaxCalls == 3         \* API calls made in one behaviour of the loop
MaxRegCalls == 1      \* of these, calls of add/remove/modify
MaxCycles == 2        \* poll calls made in one behaviour

\* ---------------------------------------------------------------- inputs
\* Endpoint objects; f1 and g1 are two distinct objects with the same descriptor.
Endpoints == {"f1", "g1", "f2"}
Handlers == {"hA", "hB"}
Modes == {POLL_IN, POLL_OUT, POLL_IN + POLL_OUT, POLL_ERR}
\* the interest the callers register while the loop is observed
LoopModes == {POLL_IN}
LoopEndpoints == {"f1", "f2"}

\* f.fileno()
fileno(f) == IF f = "f2" THEN 2 ELSE 1

\* ---------------------------------------------------------------- dicts and lists
\* d[k] = v
Put(d, k, v) == [x \in (DOMAIN d) \cup {k} |-> IF x = k THEN v ELSE d[x]]

\* del d[k]  (the caller has checked k in d)
Del(d, k) == [x \in (DOMAIN d) \ {k} |-> d[x]]

EmptyDict == [x \in {} |-> 0]

\* x in list
InList(s, x) == \E i \in 1..Len(s) : s[i] = x

\* the number of times x occurs in list s
Count(s, x) == Cardinality({i \in 1..Len(s) : s[i] = x})

\* list.remove(x): removes the first occurrence (the caller has checked x in list)
ListRemove(s, x) ==
    LET i == CHOOSE j \in 1..Len(s) : s[j] = x /\ \A k \in 1..(j - 1) : s[k] # x
    IN  [k \in 1..(Len(s) - 1) |-> IF k < i THEN s[k] ELSE s[k + 1]]

\* ---------------------------------------------------------------- state
VARIABLES
    impl,                \* self._impl: the backend object and the kernel state behind it
    fd_to_f,             \* self._fd_to_f
    handlers,            \* self._handlers
    ref_handlers,        \* self._ref_handlers
    handlers_to_remove,  \* self._handlers_to_remove
    iterating,           \* self._iterating
    events,              \* run()'s local `events`
    pc,                  \* where the single thread is: idle, top, dispatch, in_handler
    idx,                 \* position of `for handler in self._handlers`
    last,                \* history: the most recent API call and how it ended
    expected,            \* history: the registry the calls made so far should leave
    wellFormed,          \* history: no duplicate add, no remove of an unregistered fd so far
    interest,            \* history: the interest the calls made so far should leave
    cycle,               \* history: number of poll calls made by run()
    eventsFrom,          \* history: the cycle whose poll produced `events` (0: none)
    pollResult,          \* history: how the current cycle's poll ended
    log,                 \* history: handlers invoked so far in the current cycle
    startHandlers,       \* history: the live list when the current dispatch began
    runResult,           \* history: how the last run() ended
    calls,               \* history: API calls made so far
    regCalls,            \* history: registry calls made so far
    note                 \* history: what the handlers did in the current cycle

vars == <<impl, fd_to_f, handlers, ref_handlers, handlers_to_remove, iterating,
          events, pc, idx, last, expected, wellFormed, interest, cycle, eventsFrom,
          pollResult, log, startHandlers, runResult, calls, regCalls, note>>

\* ---------------------------------------------------------------- backends
Ok(s) == [st |-> s, raised |-> "none"]
Raise(s, e) == [st |-> s, raised |-> e]

\* EpollLoop: select.epoll keeps one interest mask per registered descriptor;
\* register of a registered fd and unregister/modify of an unregistered one raise.
EpollLoop_add_fd(s, fd, mode) ==
    IF fd \in DOMAIN s.epoll
    THEN Raise(s, "IOError")
    ELSE Ok([s EXCEPT !.epoll = Put(@, fd, mode)])

EpollLoop_remove_fd(s, fd) ==
    IF fd \notin DOMAIN s.epoll
    THEN Raise(s, "IOError")
    ELSE Ok([s EXCEPT !.epoll = Del(@, fd)])

EpollLoop_modify_fd(s, fd, mode) ==
    IF fd \notin DOMAIN s.epoll
    THEN Raise(s, "IOError")
    ELSE Ok([s EXCEPT !.epoll = Put(@, fd, mode)])

\* one self._kqueue.control([e], 0): KQ_EV_ADD installs the filter (again),
\* KQ_EV_DELETE of a filter the kernel does not hold raises
KqueueControlOne(r, fd, filter, flags) ==
    IF r.raised # "none" THEN r
    ELSE IF flags = "KQ_EV_ADD"
         THEN Ok([r.st EXCEPT !.filters = @ \cup {<<fd, filter>>}])
         ELSE IF <<fd, filter>> \in r.st.filters
              THEN Ok([r.st EXCEPT !.filters = @ \ {<<fd, filter>>}])
              ELSE Raise(r.st, "OSError")

KqueueLoop_control(s, fd, mode, flags) ==
    LET r1 == IF HasBit(mode, POLL_IN)
              THEN KqueueControlOne(Ok(s), fd, "KQ_FILTER_READ", flags)
              ELSE Ok(s)
    IN  IF HasBit(mode, POLL_OUT)
        THEN KqueueControlOne(r1, fd, "KQ_FILTER_WRITE", flags)
        ELSE r1

KqueueLoop_add_fd(s, fd, mode) ==
    KqueueLoop_control([s EXCEPT !.fds = Put(@, fd, mode)], fd, mode, "KQ_EV_ADD")

KqueueLoop_remove_fd(s, fd) ==
    IF fd \notin DOMAIN s.fds
    THEN Raise(s, "KeyError")
    ELSE LET r == KqueueLoop_control(s, fd, s.fds[fd], "KQ_EV_DELETE")
         IN  IF r.raised # "none" THEN r
             ELSE Ok([r.st EXCEPT !.fds = Del(@, fd)])

KqueueLoop_modify_fd(s, fd, mode) ==
    LET r == KqueueLoop_remove_fd(s, fd)
    IN  IF r.raised # "none" THEN r ELSE KqueueLoop_add_fd(r.st, fd, mode)

SelectLoop_add_fd(s, fd, mode) ==
    Ok([s EXCEPT
          !.r_list = IF HasBit(mode, POLL_IN) THEN @ \cup {fd} ELSE @,
          !.w_list = IF HasBit(mode, POLL_OUT) THEN @ \cup {fd} ELSE @,
          !.x_list = IF HasBit(mode, POLL_ERR) THEN @ \cup {fd} ELSE @])

SelectLoop_remove_fd(s, fd) ==
    Ok([s EXCEPT !.r_list = @ \ {fd}, !.w_list = @ \ {fd}, !.x_list = @ \ {fd}])

\* modify_fd that adds the new interest without taking the old one out
SelectLoop_modify_fd_AddOnly(s, fd, mode) == SelectLoop_add_fd(s, fd, mode)

SelectLoop_modify_fd(s, fd, mode) ==
    SelectLoop_add_fd(SelectLoop_remove_fd(s, fd).st, fd, mode)

\* self._impl.add_fd / remove_fd / modify_fd: the variant chosen at construction
Impl_add_fd(s, fd, mode) ==
    CASE s.model = "epoll" -> EpollLoop_add_fd(s, fd, mode)
      [] s.model = "kqueue" -> KqueueLoop_add_fd(s, fd, mode)
      [] OTHER -> SelectLoop_add_fd(s, fd, mode)

Impl_remove_fd(s, fd) ==
    CASE s.model = "epoll" -> EpollLoop_remove_fd(s, fd)
      [] s.model = "kqueue" -> KqueueLoop_remove_fd(s, fd)
      [] OTHER -> SelectLoop_remove_fd(s, fd)

Impl_modify_fd(s, fd, mode) ==
    CASE s.model = "epoll" -> EpollLoop_modify_fd(s, fd, mode)
      [] s.model = "kqueue" -> KqueueLoop_modify_fd(s, fd, mode)
      [] OTHER -> SelectLoop_modify_fd(s, fd, mode)

\* the descriptors the backend is monitoring
Monitored(s) ==
    CASE s.model = "epoll" -> DOMAIN s.epoll
      [] s.model = "kqueue" -> {p[1] : p \in s.filters}
      [] OTHER -> s.r_list \cup s.w_list \cup s.x_list

\* ---------------------------------------------------------------- registry
\* EventLoop.add(f, mode)
EventLoop_add(reg, s, f, mode) ==
    LET fd == fileno(f)
        r == Impl_add_fd(s, fd, mode)
    IN  [fd_to_f |-> Put(reg, fd, f), impl |-> r.st, raised |-> r.raised]

\* remove() that forgives a descriptor missing from the registry
EventLoop_remove_Tolerant(reg, s, f) ==
    LET fd == fileno(f)
        r == Impl_remove_fd(s, fd)
    IN  [fd_to_f |-> IF fd \in DOMAIN reg THEN Del(reg, fd) ELSE reg,
         impl |-> r.st, raised |-> r.raised]

\* EventLoop.remove(f)
EventLoop_remove(reg, s, f) ==
    LET fd == fileno(f)
    IN  IF fd \notin DOMAIN reg
        THEN [fd_to_f |-> reg, impl |-> s, raised |-> "KeyError"]
        ELSE LET r == Impl_remove_fd(s, fd)
             IN  [fd_to_f |-> Del(reg, fd), impl |-> r.st, raised |-> r.raised]

\* modify() that also rebinds the descriptor to the endpoint it was given
EventLoop_modify_Rebind(reg, s, f, mode) ==
    LET r == Impl_modify_fd(s, fileno(f), mode)
    IN  [fd_to_f |-> Put(reg, fileno(f), f), impl |-> r.st, raised |-> r.raised]

\* EventLoop.modify(f, mode)
EventLoop_modify(reg, s, f, mode) ==
    LET r == Impl_modify_fd(s, fileno(f), mode)
    IN  [fd_to_f |-> reg, impl |-> r.st, raised |-> r.raised]

\* ---------------------------------------------------------------- polling
\* d.items(), listed by ascending descriptor
RECURSIVE Items(_)
Items(d) ==
    IF DOMAIN d = {} THEN <<>>
    ELSE LET k == CHOOSE x \in DOMAIN d : \A y \in DOMAIN d : x <= y
         IN  <<(<<k, d[k]>>)>> \o Items(Del(d, k))

\* a merge that stores the flag in place of OR-ing it in
OrInto_Assign(results, fd, flag) == Put(results, fd, flag)

\* results[fd] |= flag on a defaultdict(lambda: POLL_NULL)
OrInto(results, fd, flag) ==
    Put(results, fd,
        OrBit(IF fd \in DOMAIN results THEN results[fd] ELSE POLL_NULL, flag))

\* the nonzero event masks epoll may report for a descriptor registered with `mode`
EpollReady(mode) ==
    {m \in {POLL_IN, POLL_OUT, POLL_IN + POLL_OUT, POLL_ERR} :
        \/ m = POLL_ERR
        \/ /\ HasBit(m, POLL_IN) => HasBit(mode, POLL_IN)
           /\ HasBit(m, POLL_OUT) => HasBit(mode, POLL_OUT)}

\* what self._epoll.poll(timeout) may return: each registered descriptor at most
\* once, with a nonzero mask
EpollKernel(s) ==
    {d \in UNION {[R -> {POLL_IN, POLL_OUT, POLL_IN + POLL_OUT, POLL_ERR}] :
                    R \in SUBSET (DOMAIN s.epoll)} :
        \A fd \in DOMAIN d : d[fd] \in EpollReady(s.epoll[fd])}

\* EpollLoop.poll
EpollLoop_poll(s) == {Items(d) : d \in EpollKernel(s)}

\* the loop of KqueueLoop.poll over the kevents the kernel returned
RECURSIVE KqueueMerge(_, _)
KqueueMerge(kevents, results) ==
    IF kevents = {} THEN results
    ELSE LET e == CHOOSE x \in kevents : TRUE
             r == IF e[2] = "KQ_FILTER_READ" THEN OrInto(results, e[1], POLL_IN)
                  ELSE IF e[2] = "KQ_FILTER_WRITE" THEN OrInto(results, e[1], POLL_OUT)
                  ELSE results
         IN  KqueueMerge(kevents \ {e}, r)

\* what self._kqueue.control(None, MAX_EVENTS, timeout) may return: any of the
\* installed filters, as (ident, filter) pairs
KqueueKernel(s) == SUBSET s.filters

\* KqueueLoop.poll, given the kevents the kernel returned
KqueueLoop_pollOf(kevents) == Items(KqueueMerge(kevents, EmptyDict))

\* KqueueLoop.poll
KqueueLoop_poll(s) == {KqueueLoop_pollOf(E) : E \in KqueueKernel(s)}

\* the loops of SelectLoop.poll over the three ready lists
RECURSIVE SelectMergeOne(_, _, _)
SelectMergeOne(ready, flag, results) ==
    IF ready = {} THEN results
    ELSE LET fd == CHOOSE x \in ready : TRUE
         IN  SelectMergeOne(ready \ {fd}, flag, OrInto(results, fd, flag))

SelectMerge(r, w, x) ==
    SelectMergeOne(x, POLL_ERR,
        SelectMergeOne(w, POLL_OUT,
            SelectMergeOne(r, POLL_IN, EmptyDict)))

\* what select.select may return: subsets r, w, x of the three lists, written as
\* (fd, "r"), (fd, "w"), (fd, "x") pairs
SelectKernel(s) ==
    SUBSET ({<<fd, "r">> : fd \in s.r_list} \cup {<<fd, "w">> : fd \in s.w_list}
              \cup {<<fd, "x">> : fd \in s.x_list})

\* SelectLoop.poll, given the three lists select.select returned
SelectLoop_pollOf(ready) ==
    Items(SelectMerge({p[1] : p \in {q \in ready : q[2] = "r"}},
                      {p[1] : p \in {q \in ready : q[2] = "w"}},
                      {p[1] : p \in {q \in ready : q[2] = "x"}}))

\* SelectLoop.poll
SelectLoop_poll(s) == {SelectLoop_pollOf(ready) : ready \in SelectKernel(s)}

\* self._impl.poll(timeout)
Impl_poll(s) ==
    CASE s.model = "epoll" -> EpollLoop_poll(s)
      [] s.model = "kqueue" -> KqueueLoop_poll(s)
      [] OTHER -> SelectLoop_poll(s)

\* EventLoop.poll: the list comprehension over the backend's (fd, event) pairs
EventLoop_poll(reg, items) ==
    IF \E i \in 1..Len(items) : items[i][1] \notin DOMAIN reg
    THEN [events |-> <<>>, raised |-> "KeyError"]
    ELSE [events |-> [i \in 1..Len(items) |->
                        <<reg[items[i][1]], items[i][1], items[i][2]>>],
          raised |-> "none"]

\* ---------------------------------------------------------------- handler list
\* EventLoop.add_handler(handler, ref)
EventLoop_add_handler(hs, refs, handler, ref) ==
    [handlers |-> Append(hs, handler),
     ref_handlers |-> IF ref THEN Append(refs, handler) ELSE refs]

\* remove_handler() that takes the handler off the live list at once, whatever
\* the iterating flag says
EventLoop_remove_handler_Eager(hs, refs, pend, iter, handler) ==
    LET refs2 == IF InList(refs, handler) THEN ListRemove(refs, handler) ELSE refs
    IN  IF InList(hs, handler)
        THEN [handlers |-> ListRemove(hs, handler), ref_handlers |-> refs2,
              handlers_to_remove |-> pend, raised |-> "none"]
        ELSE [handlers |-> hs, ref_handlers |-> refs2,
              handlers_to_remove |-> pend, raised |-> "ValueError"]

\* remove_handler() that leaves the reference list alone while the dispatch is in
\* progress
EventLoop_remove_handler_DeferRef(hs, refs, pend, iter, handler) ==
    LET refs2 == IF InList(refs, handler) THEN ListRemove(refs, handler) ELSE refs
    IN  IF iter
        THEN [handlers |-> hs, ref_handlers |-> refs,
              handlers_to_remove |-> Append(pend, handler), raised |-> "none"]
        ELSE IF InList(hs, handler)
             THEN [handlers |-> ListRemove(hs, handler), ref_handlers |-> refs2,
                   handlers_to_remove |-> pend, raised |-> "none"]
             ELSE [handlers |-> hs, ref_handlers |-> refs2,
                   handlers_to_remove |-> pend, raised |-> "ValueError"]

\* EventLoop.remove_handler(handler)
EventLoop_remove_handler(hs, refs, pend, iter, handler) ==
    LET refs2 == IF InList(refs, handler) THEN ListRemove(refs, handler) ELSE refs
    IN  IF iter
        THEN [handlers |-> hs, ref_handlers |-> refs2,
              handlers_to_remove |-> Append(pend, handler), raised |-> "none"]
        ELSE IF InList(hs, handler)
             THEN [handlers |-> ListRemove(hs, handler), ref_handlers |-> refs2,
                   handlers_to_remove |-> pend, raised |-> "none"]
             ELSE [handlers |-> hs, ref_handlers |-> refs2,
                   handlers_to_remove |-> pend, raised |-> "ValueError"]

\* a flush that drops the pending removals without applying them
FlushPending_Drop(hs, pend) == [handlers |-> hs, raised |-> "none"]

\* run(): `for handler in self._handlers_to_remove: self._handlers.remove(handler)`
RECURSIVE FlushPending(_, _)
FlushPending(hs, pend) ==
    IF pend = <<>> THEN [handlers |-> hs, raised |-> "none"]
    ELSE IF InList(hs, Head(pend))
         THEN FlushPending(ListRemove(hs, Head(pend)), Tail(pend))
         ELSE [handlers |-> hs, raised |-> "ValueError"]

\* ---------------------------------------------------------------- initial state
NoNote == [rm |-> {}, add |-> {}, fail |-> {}, done |-> FALSE]

Init ==
    /\ impl \in {[model |-> m, epoll |-> EmptyDict, fds |-> EmptyDict, filters |-> {},
                  r_list |-> {}, w_list |-> {}, x_list |-> {}] :
                    m \in {"epoll", "kqueue", "select"}}
    /\ fd_to_f = EmptyDict
    /\ handlers = <<>>
    /\ ref_handlers = <<>>
    /\ handlers_to_remove = <<>>
    /\ iterating = FALSE
    /\ events = <<>>
    /\ pc = "idle"
    /\ idx = 0
    /\ last = [op |-> "none", f |-> "none", raised |-> "none", seq |-> 0,
               raw |-> {}, items |-> <<>>]
    /\ expected = EmptyDict
    /\ wellFormed = TRUE
    /\ interest = [map |-> EmptyDict, ok |-> TRUE]
    /\ cycle = 0
    /\ eventsFrom = 0
    /\ pollResult = "none"
    /\ log = <<>>
    /\ startHandlers = <<>>
    /\ runResult = "none"
    /\ calls = 0
    /\ regCalls = 0
    /\ note = NoNote

\* ---------------------------------------------------------------- registry calls
\* history: the record of an API call that has just ended
CallRecord(op, f, raised) ==
    [op |-> op, f |-> f, raised |-> raised, seq |-> 1 - last.seq,
     raw |-> {}, items |-> <<>>]

\* history: the interest map after add / remove / modify of descriptor fd; ok
\* turns false at a duplicate add and at a remove or modify of a descriptor that
\* is not registered
InterestAfter(op, fd, mode) ==
    LET known == fd \in DOMAIN interest.map
    IN  CASE op = "add" -> [map |-> Put(interest.map, fd, mode),
                            ok |-> interest.ok /\ ~known]
          [] op = "remove" -> [map |-> IF known THEN Del(interest.map, fd)
                                       ELSE interest.map,
                               ok |-> interest.ok /\ known]
          [] OTHER -> [map |-> IF known THEN Put(interest.map, fd, mode)
                               ELSE interest.map,
                       ok |-> interest.ok /\ known]

\* a call of EventLoop.add(f, mode), by the main program or by a handler
RegAdd(f, mode) ==
    LET r == EventLoop_add(fd_to_f, impl, f, mode)
    IN  /\ fd_to_f' = r.fd_to_f
        /\ impl' = r.impl
        /\ last' = CallRecord("add", f, r.raised)
        /\ interest' = InterestAfter("add", fileno(f), mode)
        /\ wellFormed' = (wellFormed /\ fileno(f) \notin DOMAIN expected)
        /\ expected' = Put(expected, fileno(f), f)

\* a call of EventLoop.remove(f)
RegRemove(f) ==
    LET r == EventLoop_remove(fd_to_f, impl, f)
    IN  /\ fd_to_f' = r.fd_to_f
        /\ impl' = r.impl
        /\ last' = CallRecord("remove", f, r.raised)
        /\ interest' = InterestAfter("remove", fileno(f), POLL_NULL)
        /\ wellFormed' = (wellFormed /\ fileno(f) \in DOMAIN expected)
        /\ expected' = IF fileno(f) \in DOMAIN expected
                       THEN Del(expected, fileno(f)) ELSE expected

\* a call of EventLoop.modify(f, mode)
RegModify(f, mode) ==
    LET r == EventLoop_modify(fd_to_f, impl, f, mode)
    IN  /\ fd_to_f' = r.fd_to_f
        /\ impl' = r.impl
        /\ last' = CallRecord("modify", f, r.raised)
        /\ interest' = InterestAfter("modify", fileno(f), mode)
        /\ UNCHANGED <<wellFormed, expected>>

\* who may call the API: the main program while no run() is in progress, or the
\* handler being invoked (everything runs on the one thread)
CallerRuns == pc \in {"idle", "in_handler"}

\* one more API call
CountCall ==
    /\ calls < MaxCalls
    /\ calls' = calls + 1

handlerListVars == <<handlers, ref_handlers, handlers_to_remove>>
runVars == <<iterating, events, pc, idx, cycle, eventsFrom, pollResult, log,
             startHandlers, runResult>>
regVars == <<impl, fd_to_f, last, expected, wellFormed, interest>>

CallAdd ==
    /\ CallerRuns /\ regCalls < MaxRegCalls /\ CountCall
    /\ \E f \in LoopEndpoints, mode \in LoopModes : RegAdd(f, mode)
    /\ regCalls' = regCalls + 1
    /\ UNCHANGED <<handlerListVars, runVars, note>>

CallRemove ==
    /\ CallerRuns /\ regCalls < MaxRegCalls /\ CountCall
    /\ \E f \in LoopEndpoints : RegRemove(f)
    /\ regCalls' = regCalls + 1
    /\ UNCHANGED <<handlerListVars, runVars, note>>

CallModify ==
    /\ CallerRuns /\ regCalls < MaxRegCalls /\ CountCall
    /\ \E f \in LoopEndpoints, mode \in LoopModes : RegModify(f, mode)
    /\ regCalls' = regCalls + 1
    /\ UNCHANGED <<handlerListVars, runVars, note>>

\* ---------------------------------------------------------------- handler calls
\* a call of EventLoop.add_handler(handler, ref)
CallAddHandler ==
    /\ CallerRuns /\ CountCall
    /\ \E h \in Handlers, ref \in BOOLEAN :
         LET r == EventLoop_add_handler(handlers, ref_handlers, h, ref)
         IN  /\ handlers' = r.handlers
             /\ ref_handlers' = r.ref_handlers
             /\ note' = IF pc = "in_handler"
                        THEN [note EXCEPT !.add = @ \cup {h}] ELSE note
    /\ UNCHANGED <<handlers_to_remove, runVars, regVars, regCalls>>

\* a call of EventLoop.remove_handler(handler)
CallRemoveHandler ==
    /\ CallerRuns /\ CountCall
    /\ \E h \in Handlers :
         LET r == EventLoop_remove_handler(handlers, ref_handlers,
                                           handlers_to_remove, iterating, h)
         IN  /\ handlers' = r.handlers
             /\ ref_handlers' = r.ref_handlers
             /\ handlers_to_remove' = r.handlers_to_remove
             /\ note' = IF pc = "in_handler"
                        THEN [note EXCEPT !.rm = @ \cup {<<idx, h>>}] ELSE note
    /\ UNCHANGED <<runVars, regVars, regCalls>>

\* ---------------------------------------------------------------- run()
\* run() is called: `events = []`, then the first `while self._ref_handlers` check
Run ==
    /\ pc = "idle"
    /\ pc' = "top"
    /\ events' = <<>>
    /\ eventsFrom' = 0
    /\ runResult' = "running"
    /\ pollResult' = "none"
    /\ log' = <<>>
    /\ startHandlers' = <<>>
    /\ note' = NoNote
    /\ idx' = 0
    /\ UNCHANGED <<handlerListVars, iterating, cycle, calls, regVars, regCalls>>

\* a run() that also checks the reference list between two handlers of a cycle
RunReturn_MidCycle ==
    /\ pc \in {"top", "dispatch"}
    /\ ref_handlers = <<>>
    /\ pc' = "idle"
    /\ runResult' = "returned"
    /\ events' = <<>>
    /\ eventsFrom' = 0
    /\ UNCHANGED <<handlerListVars, iterating, idx, cycle, pollResult, log,
                   startHandlers, calls, note, regVars, regCalls>>

\* `while self._ref_handlers` finds the list empty: run() returns
RunReturn ==
    /\ pc = "top"
    /\ ref_handlers = <<>>
    /\ pc' = "idle"
    /\ runResult' = "returned"
    /\ events' = <<>>
    /\ eventsFrom' = 0
    /\ UNCHANGED <<handlerListVars, iterating, idx, cycle, pollResult, log,
                   startHandlers, calls, note, regVars, regCalls>>

\* an exception leaves run(): nothing after the raising statement is executed
Escape(how) ==
    /\ pc' = "idle"
    /\ runResult' = how
    /\ events' = <<>>
    /\ eventsFrom' = 0

\* `self._iterating = True` and the start of `for handler in self._handlers`
EnterDispatch(result) ==
    /\ iterating' = TRUE
    /\ pc' = "dispatch"
    /\ idx' = 1
    /\ log' = <<>>
    /\ startHandlers' = handlers
    /\ note' = NoNote
    /\ pollResult' = result
    /\ cycle' = cycle + 1

\* a loop condition that looks at the live handler list instead of the reference
\* list
PollCalled_AnyHandler ==
    /\ pc = "top"
    /\ handlers # <<>>
    /\ cycle < MaxCycles

\* the loop condition holds and self.poll(1) is called
PollCalled ==
    /\ pc = "top"
    /\ ref_handlers # <<>>
    /\ cycle < MaxCycles

\* the exceptions `except (OSError, IOError)` catches
CaughtByRun(e) == e \in {"OSError", "IOError"}

\* self.poll(1) returns the translated events
PollOk ==
    /\ PollCalled
    /\ \E items \in Impl_poll(impl) :
         LET t == EventLoop_poll(fd_to_f, items)
         IN  /\ t.raised = "none"
             /\ events' = t.events
             /\ eventsFrom' = cycle + 1
    /\ EnterDispatch("ok")
    /\ UNCHANGED <<handlerListVars, runResult, calls, regVars, regCalls>>

\* self.poll(1) raises KeyError from the registry lookup: not caught by run()
PollKeyError ==
    /\ PollCalled
    /\ \E items \in Impl_poll(impl) : EventLoop_poll(fd_to_f, items).raised = "KeyError"
    /\ ~CaughtByRun("KeyError")
    /\ Escape("raised_poll")
    /\ pollResult' = "KeyError"
    /\ cycle' = cycle + 1
    /\ UNCHANGED <<handlerListVars, iterating, idx, log, startHandlers, calls, note,
                   regVars, regCalls>>

\* the backend's poll raises OSError/IOError with errno EPIPE or EINTR: logged,
\* and control falls through to the dispatch with `events` as it was
PollTransient ==
    /\ PollCalled
    /\ CaughtByRun("OSError")
    /\ \E e \in {"EINTR", "EPIPE"} : EnterDispatch(e)
    /\ UNCHANGED <<events, eventsFrom, handlerListVars, runResult, calls, regVars,
                   regCalls>>

\* the backend's poll raises OSError/IOError with another errno: logged, `continue`
PollError ==
    /\ PollCalled
    /\ CaughtByRun("OSError")
    /\ pollResult' = "OSError"
    /\ cycle' = cycle + 1
    /\ UNCHANGED <<events, eventsFrom, handlerListVars, iterating, pc, idx, log,
                   startHandlers, runResult, calls, note, regVars, regCalls>>

\* `for handler in self._handlers` yields the next handler; handler(events) is called
InvokeHandler ==
    /\ pc = "dispatch"
    /\ idx <= Len(handlers)
    /\ pc' = "in_handler"
    /\ log' = Append(log, handlers[idx])
    /\ UNCHANGED <<handlerListVars, iterating, events, idx, cycle, eventsFrom,
                   pollResult, startHandlers, runResult, calls, note, regVars, regCalls>>

\* what a handler invocation may end with: a return or an exception
HandlerOutcomes == {"none", "IOError", "ValueError"}

\* handler(events) ends: a return or a caught exception goes on to the next
\* handler, any other exception leaves run()
HandlerEnds ==
    /\ pc = "in_handler"
    /\ \E e \in HandlerOutcomes :
         /\ note' = IF e = "none" THEN note ELSE [note EXCEPT !.fail = @ \cup {idx}]
         /\ IF e = "none" \/ CaughtByRun(e)
            THEN /\ pc' = "dispatch"
                 /\ idx' = idx + 1
                 /\ UNCHANGED <<events, eventsFrom, runResult>>
            ELSE /\ Escape("raised_handler")
                 /\ UNCHANGED idx
    /\ UNCHANGED <<handlerListVars, iterating, cycle, pollResult, log, startHandlers,
                   calls, regVars, regCalls>>

\* the for loop is exhausted: the pending removals are applied, the flag is cleared
EndDispatch ==
    /\ pc = "dispatch"
    /\ idx > Len(handlers)
    /\ LET r == FlushPending(handlers, handlers_to_remove)
       IN  /\ handlers' = r.handlers
           /\ IF r.raised = "none"
              THEN /\ handlers_to_remove' = <<>>
                   /\ iterating' = FALSE
                   /\ pc' = "top"
                   /\ note' = [note EXCEPT !.done = TRUE]
                   /\ UNCHANGED <<events, eventsFrom, runResult>>
              ELSE /\ Escape("raised_flush")
                   /\ UNCHANGED <<handlers_to_remove, iterating, note>>
    /\ UNCHANGED <<ref_handlers, idx, cycle, pollResult, log, startHandlers, calls,
                   regVars, regCalls>>

\* ---------------------------------------------------------------- specifications
Next ==
    \/ CallAdd \/ CallRemove \/ CallModify
    \/ CallAddHandler \/ CallRemoveHandler
    \/ Run \/ RunReturn
    \/ PollOk \/ PollKeyError \/ PollTransient \/ PollError
    \/ InvokeHandler \/ HandlerEnds \/ EndDispatch

Spec == Init /\ [][Next]_vars

\* the registry alone: add/remove/modify called by the main program, no run()
RegCallAdd ==
    /\ pc = "idle"
    /\ \E f \in Endpoints, mode \in Modes : RegAdd(f, mode)
    /\ UNCHANGED <<handlerListVars, runVars, calls, regCalls, note>>

RegCallRemove ==
    /\ pc = "idle"
    /\ \E f \in Endpoints : RegRemove(f)
    /\ UNCHANGED <<handlerListVars, runVars, calls, regCalls, note>>

RegCallModify ==
    /\ pc = "idle"
    /\ \E f \in Endpoints, mode \in Modes : RegModify(f, mode)
    /\ UNCHANGED <<handlerListVars, runVars, calls, regCalls, note>>

\* a call of EventLoop.poll(timeout) by the main program
RegCallPoll ==
    /\ pc = "idle"
    /\ \/ /\ impl.model = "epoll"
          /\ \E d \in EpollKernel(impl) :
               last' = [CallRecord("poll", "none",
                                   EventLoop_poll(fd_to_f, Items(d)).raised)
                          EXCEPT !.raw = {<<fd, d[fd]>> : fd \in DOMAIN d},
                                 !.items = Items(d)]
       \/ /\ impl.model = "kqueue"
          /\ \E E \in KqueueKernel(impl) :
               last' = [CallRecord("poll", "none",
                                   EventLoop_poll(fd_to_f, KqueueLoop_pollOf(E)).raised)
                          EXCEPT !.raw = E, !.items = KqueueLoop_pollOf(E)]
       \/ /\ impl.model = "select"
          /\ \E ready \in SelectKernel(impl) :
               last' = [CallRecord("poll", "none",
                                   EventLoop_poll(fd_to_f, SelectLoop_pollOf(ready)).raised)
                          EXCEPT !.raw = ready, !.items = SelectLoop_pollOf(ready)]
    /\ UNCHANGED <<impl, fd_to_f, expected, wellFormed, interest, handlerListVars,
                   runVars, calls, regCalls, note>>

NextReg == RegCallAdd \/ RegCallRemove \/ RegCallModify

SpecReg == Init /\ [][NextReg]_vars

\* the registry and the backends: add/remove/modify and poll called by the main
\* program, no run()
NextPoll == RegCallAdd \/ RegCallRemove \/ RegCallModify \/ RegCallPoll

SpecPoll == Init /\ [][NextPoll]_vars

\* ---------------------------------------------------------------- claims
\* an API call was made in this step
Called(op) == last'.seq # last.seq /\ last'.op = op

\* the handler invoked at position i of the current cycle asked for its own removal
SelfRemoved(i) == i \in 1..Len(log) /\ <<i, log[i]>> \in note.rm

\* hA and hB were the live list, in that order, when the dispatch began, and hA
\* called remove_handler(hB) during its invocation
ARemovedB == startHandlers = <<"hA", "hB">> /\ <<1, "hB">> \in note.rm

C2_NoFailureEscapes == runResult \notin {"raised_poll", "raised_handler"}

C5_DispatchOnceWithCycleEvents ==
    /\ pc = "in_handler" => (eventsFrom = cycle \/ events = <<>>)
    /\ note.done =>
         /\ Len(log) >= Len(startHandlers)
         /\ \A i \in 1..Len(startHandlers) : log[i] = startHandlers[i]

\* C6: after a transient failure of the poll call (EINTR, EPIPE) no handler is
\* invoked with the event list of an earlier cycle's poll.
C6_NoStaleEventsAfterTransient ==
    (pollResult \in {"EINTR", "EPIPE"} /\ pc = "in_handler") =>
        ~(eventsFrom \in 1..(cycle - 1) /\ events # <<>>)

\* C7: a handler's failure does not end the dispatch, and the handler that failed
\* keeps its place in the live list.
C7_HandlerFailureIsolated ==
    note.fail # {} =>
        /\ runResult # "raised_handler"
        /\ pc \in {"dispatch", "in_handler"} =>
             \A i \in note.fail : i <= Len(handlers) /\ handlers[i] = log[i]

\* C8: add() of an endpoint whose descriptor is registered raises, and leaves the
\* registry and the backend as they were.
C8_DuplicateAddFails ==
    [][(Called("add") /\ fileno(last'.f) \in DOMAIN fd_to_f) =>
          (last'.raised # "none" /\ fd_to_f' = fd_to_f /\ impl' = impl)]_vars

\* C9: remove() of an endpoint whose descriptor is not registered raises, and
\* leaves the registry and the backend as they were.
C9_RemoveUnregisteredFails ==
    [][(Called("remove") /\ fileno(last'.f) \notin DOMAIN fd_to_f) =>
          (last'.raised # "none" /\ fd_to_f' = fd_to_f /\ impl' = impl)]_vars

\* remove() of an unregistered descriptor has failed while the backend still
\* monitors a descriptor
C9_Witness ==
    /\ last.op = "remove"
    /\ last.raised = "KeyError"
    /\ fileno(last.f) \notin DOMAIN fd_to_f
    /\ Monitored(impl) # {}

\* C10: while no add was a duplicate and no remove was of an unregistered
\* descriptor, the registry maps exactly the descriptors added and not yet
\* removed, each to the endpoint of its latest add; modify leaves the registry
\* as it was.
C10_RegistryNetEffect ==
    /\ [](wellFormed => fd_to_f = expected)
    /\ [][Called("modify") => fd_to_f' = fd_to_f]_vars

\* a sequence with no duplicate add and no remove of an unregistered descriptor
\* has left g1 registered on descriptor 1, and its last call was a modify that
\* succeeded
C10_Witness ==
    /\ wellFormed
    /\ DOMAIN fd_to_f = {1}
    /\ fd_to_f[1] = "g1"
    /\ last.op = "modify"
    /\ last.raised = "none"

\* C11: when the top-of-cycle check finds the reference list empty while the live
\* list still holds handlers, run() returns there, without another poll or
\* dispatch, and leaves the live list as it is.
C11_NonRefDoesNotKeepRunning ==
    [][(pc = "top" /\ ref_handlers = <<>> /\ handlers # <<>>) =>
          /\ runResult' = "returned"
          /\ pc' = "idle"
          /\ cycle' = cycle
          /\ handlers' = handlers]_vars

\* run() has returned after a dispatched cycle with handlers left in the live list
\* and none in the reference list
C11_Witness ==
    /\ runResult = "returned"
    /\ note.done
    /\ ref_handlers = <<>>
    /\ handlers # <<>>
    /\ handlers_to_remove = <<>>

\* C12: the pending-removal list is empty at every top-of-cycle point.
C12_PendingEmptyAtTop == pc = "top" => handlers_to_remove = <<>>

\* a remove_handler call is made in this step (add_handler lengthens the live
\* list, the registry calls count in regCalls)
RemoveHandlerCalled ==
    /\ calls' # calls
    /\ regCalls' = regCalls
    /\ Len(handlers') <= Len(handlers)

\* the handler the call of this step names, where the step tells
RemoveHandlerOf(h) ==
    /\ pc = "in_handler" => <<idx, h>> \in note'.rm
    /\ iterating => handlers_to_remove' = Append(handlers_to_remove, h)

\* C13: remove_handler(h) takes one entry of h off the reference list in the call
\* itself, whether or not the dispatch is in progress; with the dispatch in
\* progress the live list is left as it is and h is appended to the pending list,
\* otherwise one entry of h leaves the live list in the call itself.
C13_RefRemovedAtOnce ==
    [][RemoveHandlerCalled =>
          \E h \in Handlers :
              /\ RemoveHandlerOf(h)
              /\ \A g \in Handlers :
                    Count(ref_handlers', g) =
                        IF g = h /\ InList(ref_handlers, h)
                        THEN Count(ref_handlers, g) - 1 ELSE Count(ref_handlers, g)
              /\ IF iterating
                 THEN handlers' = handlers
                 ELSE /\ handlers_to_remove' = handlers_to_remove
                      /\ InList(handlers, h) => handlers' = ListRemove(handlers, h)
                      /\ ~InList(handlers, h) => handlers' = handlers]_vars

\* a handler has asked, during its invocation, for the removal of the only
\* reference handler: the reference list is empty at once while the live list
\* still holds the handler and the request is pending
C13_Witness ==
    /\ pc = "in_handler"
    /\ iterating
    /\ note.rm # {}
    /\ ref_handlers = <<>>
    /\ handlers_to_remove # <<>>
    /\ \A i \in 1..Len(handlers_to_remove) : InList(handlers, handlers_to_remove[i])

\* C14: the iterating flag is false at every top-of-cycle point and whenever
\* run() is not in progress.
C14_FlagClearOutsideDispatch == pc \in {"idle", "top"} => ~iterating

\* C15: a run() whose reference list is empty, whose handlers raise nothing that
\* run() lets through and whose poll calls return, ends by returning.
C15_EmptiedRunReturns ==
    [][(/\ runResult = "running"
        /\ ref_handlers = <<>>
        /\ runResult' \notin {"running", "raised_handler", "raised_poll"}) =>
          runResult' = "returned"]_vars

\* C18: the flush of the pending removals at the end of a cycle never raises.
C18_FlushSucceeds == runResult # "raised_flush"

\* C19: every handler is in the live list at least as often as it is in the
\* reference list.
C19_RefWithinLive ==
    \A h \in Handlers : Count(ref_handlers, h) <= Count(handlers, h)

\* the kinds of readiness the kernel reported for descriptor fd in the last poll
ReadyKinds(fd) == {p[2] : p \in {q \in last.raw : q[1] = fd}}

\* the flags those kinds stand for: READ, WRITE, and ERROR for select's
\* exceptional set
ReadyFlags(fd) ==
    (IF ReadyKinds(fd) \cap {"KQ_FILTER_READ", "r"} # {} THEN POLL_IN ELSE POLL_NULL)
      + (IF ReadyKinds(fd) \cap {"KQ_FILTER_WRITE", "w"} # {} THEN POLL_OUT ELSE POLL_NULL)
      + (IF "x" \in ReadyKinds(fd) THEN POLL_ERR ELSE POLL_NULL)

\* C16: the kqueue and select variants' poll returns every ready descriptor once,
\* no other descriptor, each with the OR of the flags of its ready filters or
\* sets, and returns nothing when nothing is ready.
C16_PollMergesFlags ==
    (last.op = "poll" /\ impl.model \in {"kqueue", "select"}) =>
        /\ \A i, j \in 1..Len(last.items) :
              i # j => last.items[i][1] # last.items[j][1]
        /\ {last.items[i][1] : i \in 1..Len(last.items)} = {p[1] : p \in last.raw}
        /\ \A i \in 1..Len(last.items) :
              last.items[i][2] = ReadyFlags(last.items[i][1])
        /\ last.raw = {} => last.items = <<>>

\* a poll of the kqueue or select variant has reported two descriptors, one of
\* them ready for reading and for writing at once
C16_Witness ==
    /\ last.op = "poll"
    /\ impl.model \in {"kqueue", "select"}
    /\ Len(last.items) = 2
    /\ Cardinality(last.raw) >= 3
    /\ \E i \in 1..Len(last.items) : last.items[i][2] = POLL_IN + POLL_OUT

\* the kqueue filters a mode stands for
FiltersOf(fd, mode) ==
    (IF HasBit(mode, POLL_IN) THEN {<<fd, "KQ_FILTER_READ">>} ELSE {})
      \cup (IF HasBit(mode, POLL_OUT) THEN {<<fd, "KQ_FILTER_WRITE">>} ELSE {})

\* the backend monitors exactly what the interest map m says
RefinesInterest(s, m) ==
    CASE s.model = "select" ->
             /\ s.r_list = {fd \in DOMAIN m : HasBit(m[fd], POLL_IN)}
             /\ s.w_list = {fd \in DOMAIN m : HasBit(m[fd], POLL_OUT)}
             /\ s.x_list = {fd \in DOMAIN m : HasBit(m[fd], POLL_ERR)}
      [] s.model = "kqueue" ->
             /\ s.fds = m
             /\ s.filters = UNION {FiltersOf(fd, m[fd]) : fd \in DOMAIN m}
      [] OTHER -> TRUE

\* C17: while no descriptor was added twice and none was modified or removed
\* while unregistered, the select sets and the kqueue filters and remembered
\* modes are exactly those of each descriptor's latest add or modify; a modify
\* leaves the backend as a remove followed by an add would; after a remove the
\* backend holds nothing for the descriptor.
C17_BackendsRefineInterest ==
    /\ [](interest.ok => RefinesInterest(impl, interest.map))
    /\ [][(Called("modify") /\ interest'.ok /\ impl.model \in {"kqueue", "select"}) =>
            /\ last'.raised = "none"
            /\ impl' = Impl_add_fd(Impl_remove_fd(impl, fileno(last'.f)).st,
                                   fileno(last'.f),
                                   interest'.map[fileno(last'.f)]).st]_vars
    /\ [][(Called("remove") /\ interest'.ok /\ impl.model \in {"kqueue", "select"}) =>
            /\ last'.raised = "none"
            /\ fileno(last'.f) \notin Monitored(impl')
            /\ fileno(last'.f) \notin DOMAIN impl'.fds]_vars

\* the select variant after add of descriptors 1 and 2 and a modify, none of the
\* calls out of order: descriptor 1 is in the write set alone, descriptor 2 in the
\* read set alone
C17_Witness ==
    /\ interest.ok
    /\ impl.model = "select"
    /\ last.op = "modify"
    /\ last.raised = "none"
    /\ DOMAIN interest.map = {1, 2}
    /\ impl.r_list = {2}
    /\ impl.w_list = {1}
    /\ impl.x_list = {}

\* C20: every descriptor the backend monitors has an entry in the registry.
C20_MonitoredRegistered == Monitored(impl) \subseteq DOMAIN fd_to_f

====
